---- MODULE Spec2Model ----
(***************************************************************************)
(* The Options Automator: the `configoptions` command group of             *)
(* src/sentry/runner/commands/configoptions.py with its two subcommands,   *)
(* `patch` and `sync`, running against the options store (sentry.options). *)
(*                                                                         *)
(* One invocation is: the group callback `configoptions` (load the file,   *)
(* walk the path, validate every key with can_update), then the chosen     *)
(* subcommand.  The loops of the code are stepped one iteration at a time. *)
(***************************************************************************)
EXTENDS Integers, Sequences, FiniteSets, TLC

(***************************************************************************)
(* Bounds of the model.                                                    *)
(***************************************************************************)
\* Number of consecutive invocations with the same command line.
MaxRuns == 2

(***************************************************************************)
(* The option registry and the values of the store's enumerations.         *)
(***************************************************************************)
\* The registered options, in registry order.
KeyOrder == <<"a", "b", "c">>

Keys == {KeyOrder[i] : i \in 1..Len(KeyOrder)}

\* Option values.  The program only compares them for equality: one value
\* that is the registered default and one that is not.
Values == {1, 2}

\* The registered default of an option: what options.get returns when the
\* option is not set in the store.
DefaultValue(key) == 1

\* UpdateChannel members; NoChannel is Python's None.
AUTOMATOR == "automator"

CLI == "cli"

NoChannel == "none"

SetChannels == {AUTOMATOR, CLI}

\* NotWritableReason members; Writable is Python's None.
Writable == "writable"

DRIFTED == "drifted"

READONLY == "readonly"

CHANNEL_NOT_ALLOWED == "channel_not_allowed"

Reasons == {Writable, DRIFTED, READONLY, CHANNEL_NOT_ALLOWED}

(***************************************************************************)
(* The options store (sentry.options), the external collaborator.          *)
(* A store maps every registered option to an entry.                       *)
(***************************************************************************)
UnsetEntry == [isset |-> FALSE, value |-> 0, channel |-> NoChannel]

Entries ==
    {UnsetEntry} \cup [isset : {TRUE}, value : Values, channel : SetChannels]

Stores == [Keys -> Entries]

\* options.get(key): the stored value, or the default when not set.
OptionsGet(st, key) ==
    IF st[key].isset THEN st[key].value ELSE DefaultValue(key)

\* options.isset(key)
OptionsIsSet(st, key) == st[key].isset

\* options.get_last_update_channel(key): None when the option is not stored.
OptionsGetLastUpdateChannel(st, key) == st[key].channel

\* options.set(key, value, coerce=False, channel=channel)
OptionsSet(st, key, value, channel) ==
    [st EXCEPT ![key] = [isset |-> TRUE, value |-> value, channel |-> channel]]

\* options.delete(key)
OptionsDelete(st, key) == [st EXCEPT ![key] = UnsetEntry]

\* options.filter(options.FLAG_AUTOMATOR_MODIFIABLE): the options carrying
\* the flag, in registry order.  "c" does not carry it.
OptionsFilter == <<"a", "b">>

\* The automator-modifiable (eligible) options: those the store marks as
\* permitted for programmatic bulk management.
ModifiableKeys == {OptionsFilter[i] : i \in 1..Len(OptionsFilter)}

(***************************************************************************)
(* Output lines (click.echo), one tuple per line.                          *)
(***************************************************************************)
DRIFT_MSG(key) == <<"DRIFT", key>>

CHANNEL_UPDATE_MSG(key) == <<"CHANNEL UPDATE", key>>

UPDATE_MSG(key) == <<"UPDATE", key>>

UNSET_MSG(key) == <<"UNSET", key>>

DRY_RUN_MSG == <<"!!! Dry-run flag on. No update will be performed.">>

InvalidPathMsg(key, current_path) == <<"Invalid path", key, current_path>>

InvalidOptionMsg(key, reason) == <<"Invalid option", key, reason>>

(***************************************************************************)
(* The effects of a run so far: the store, the lines echoed and the log of *)
(* the mutating store calls issued.                                        *)
(***************************************************************************)
Echo(s, msg) == [s EXCEPT !.out = Append(@, msg)]

CallSet(s, key, value, channel) ==
    [s EXCEPT !.store = OptionsSet(@, key, value, channel),
              !.writes = Append(@, <<"set", key, value, channel>>)]

CallDelete(s, key) ==
    [s EXCEPT !.store = OptionsDelete(@, key),
              !.writes = Append(@, <<"delete", key>>)]

(***************************************************************************)
(* Faulty variants of _attempt_update, used to show that the properties    *)
(* below depend on it.                                                     *)
(***************************************************************************)
\* The drift check is made only after the equality check.
AttemptUpdate_DriftAfterEqual(s, key, value, drifted, dry) ==
    IF OptionsGet(s.store, key) = value
    THEN LET last_update_channel == OptionsGetLastUpdateChannel(s.store, key)
         IN  IF last_update_channel = NoChannel
             THEN Echo(IF ~dry THEN CallSet(s, key, value, AUTOMATOR) ELSE s,
                       UPDATE_MSG(key))
             ELSE IF last_update_channel # AUTOMATOR
             THEN Echo(IF ~dry THEN CallSet(s, key, value, AUTOMATOR) ELSE s,
                       CHANNEL_UPDATE_MSG(key))
             ELSE s
    ELSE IF key \in drifted
    THEN Echo(s, DRIFT_MSG(key))
    ELSE Echo(IF ~dry THEN CallSet(s, key, value, AUTOMATOR) ELSE s,
              UPDATE_MSG(key))

\* The final update is written without the channel argument, so the store
\* records another channel than Automator.
AttemptUpdate_WrongChannel(s, key, value, drifted, dry) ==
    IF key \in drifted
    THEN Echo(s, DRIFT_MSG(key))
    ELSE IF OptionsGet(s.store, key) = value
    THEN LET last_update_channel == OptionsGetLastUpdateChannel(s.store, key)
         IN  IF last_update_channel = NoChannel
             THEN Echo(IF ~dry THEN CallSet(s, key, value, AUTOMATOR) ELSE s,
                       UPDATE_MSG(key))
             ELSE IF last_update_channel # AUTOMATOR
             THEN Echo(IF ~dry THEN CallSet(s, key, value, AUTOMATOR) ELSE s,
                       CHANNEL_UPDATE_MSG(key))
             ELSE s
    ELSE Echo(IF ~dry THEN CallSet(s, key, value, CLI) ELSE s,
              UPDATE_MSG(key))

\* The final update is written without looking at the dry-run flag.
AttemptUpdate_IgnoresDryRun(s, key, value, drifted, dry) ==
    IF key \in drifted
    THEN Echo(s, DRIFT_MSG(key))
    ELSE IF OptionsGet(s.store, key) = value
    THEN LET last_update_channel == OptionsGetLastUpdateChannel(s.store, key)
         IN  IF last_update_channel = NoChannel
             THEN Echo(IF ~dry THEN CallSet(s, key, value, AUTOMATOR) ELSE s,
                       UPDATE_MSG(key))
             ELSE IF last_update_channel # AUTOMATOR
             THEN Echo(IF ~dry THEN CallSet(s, key, value, AUTOMATOR) ELSE s,
                       CHANNEL_UPDATE_MSG(key))
             ELSE s
    ELSE Echo(CallSet(s, key, value, AUTOMATOR), UPDATE_MSG(key))

\* The message of the final update is echoed only when the write is made.
AttemptUpdate_SilentDryRun(s, key, value, drifted, dry) ==
    IF key \in drifted
    THEN Echo(s, DRIFT_MSG(key))
    ELSE IF OptionsGet(s.store, key) = value
    THEN LET last_update_channel == OptionsGetLastUpdateChannel(s.store, key)
         IN  IF last_update_channel = NoChannel
             THEN Echo(IF ~dry THEN CallSet(s, key, value, AUTOMATOR) ELSE s,
                       UPDATE_MSG(key))
             ELSE IF last_update_channel # AUTOMATOR
             THEN Echo(IF ~dry THEN CallSet(s, key, value, AUTOMATOR) ELSE s,
                       CHANNEL_UPDATE_MSG(key))
             ELSE s
    ELSE IF ~dry
    THEN Echo(CallSet(s, key, value, AUTOMATOR), UPDATE_MSG(key))
    ELSE s

\* The early return of the equal-value branch is missing: an option that
\* already has the value and the channel is written again.
AttemptUpdate_NoEarlyReturn(s, key, value, drifted, dry) ==
    IF key \in drifted
    THEN Echo(s, DRIFT_MSG(key))
    ELSE LET last_update_channel == OptionsGetLastUpdateChannel(s.store, key)
             t == IF OptionsGet(s.store, key) # value
                  THEN s
                  ELSE IF last_update_channel = NoChannel
                  THEN Echo(IF ~dry THEN CallSet(s, key, value, AUTOMATOR) ELSE s,
                            UPDATE_MSG(key))
                  ELSE IF last_update_channel # AUTOMATOR
                  THEN Echo(IF ~dry THEN CallSet(s, key, value, AUTOMATOR) ELSE s,
                            CHANNEL_UPDATE_MSG(key))
                  ELSE s
         IN  Echo(IF ~dry THEN CallSet(t, key, value, AUTOMATOR) ELSE t,
                  UPDATE_MSG(key))

\* An option whose desired value is its registered default is unset rather
\* than written.
AttemptUpdate_UnsetsDefault(s, key, value, drifted, dry) ==
    IF key \in drifted
    THEN Echo(s, DRIFT_MSG(key))
    ELSE IF OptionsGet(s.store, key) = value
    THEN LET last_update_channel == OptionsGetLastUpdateChannel(s.store, key)
         IN  IF last_update_channel = NoChannel
             THEN Echo(IF ~dry THEN CallSet(s, key, value, AUTOMATOR) ELSE s,
                       UPDATE_MSG(key))
             ELSE IF last_update_channel # AUTOMATOR
             THEN Echo(IF ~dry THEN CallSet(s, key, value, AUTOMATOR) ELSE s,
                       CHANNEL_UPDATE_MSG(key))
             ELSE s
    ELSE IF value = DefaultValue(key)
    THEN Echo(IF ~dry THEN CallDelete(s, key) ELSE s, UPDATE_MSG(key))
    ELSE Echo(IF ~dry THEN CallSet(s, key, value, AUTOMATOR) ELSE s,
              UPDATE_MSG(key))

\* An unset channel is not told apart from a foreign one.
AttemptUpdate_NoneAsForeign(s, key, value, drifted, dry) ==
    IF key \in drifted
    THEN Echo(s, DRIFT_MSG(key))
    ELSE IF OptionsGet(s.store, key) = value
    THEN LET last_update_channel == OptionsGetLastUpdateChannel(s.store, key)
         IN  IF last_update_channel # AUTOMATOR
             THEN Echo(IF ~dry THEN CallSet(s, key, value, AUTOMATOR) ELSE s,
                       CHANNEL_UPDATE_MSG(key))
             ELSE s
    ELSE Echo(IF ~dry THEN CallSet(s, key, value, AUTOMATOR) ELSE s,
              UPDATE_MSG(key))

\* The channel update is announced but not written.
AttemptUpdate_ChannelNotStamped(s, key, value, drifted, dry) ==
    IF key \in drifted
    THEN Echo(s, DRIFT_MSG(key))
    ELSE IF OptionsGet(s.store, key) = value
    THEN LET last_update_channel == OptionsGetLastUpdateChannel(s.store, key)
         IN  IF last_update_channel = NoChannel
             THEN Echo(IF ~dry THEN CallSet(s, key, value, AUTOMATOR) ELSE s,
                       UPDATE_MSG(key))
             ELSE IF last_update_channel # AUTOMATOR
             THEN Echo(s, CHANNEL_UPDATE_MSG(key))
             ELSE s
    ELSE Echo(IF ~dry THEN CallSet(s, key, value, AUTOMATOR) ELSE s,
              UPDATE_MSG(key))

\* The drift set is not looked at.
AttemptUpdate_NoDriftCheck(s, key, value, drifted, dry) ==
    IF OptionsGet(s.store, key) = value
    THEN LET last_update_channel == OptionsGetLastUpdateChannel(s.store, key)
         IN  IF last_update_channel = NoChannel
             THEN Echo(IF ~dry THEN CallSet(s, key, value, AUTOMATOR) ELSE s,
                       UPDATE_MSG(key))
             ELSE IF last_update_channel # AUTOMATOR
             THEN Echo(IF ~dry THEN CallSet(s, key, value, AUTOMATOR) ELSE s,
                       CHANNEL_UPDATE_MSG(key))
             ELSE s
    ELSE Echo(IF ~dry THEN CallSet(s, key, value, AUTOMATOR) ELSE s,
              UPDATE_MSG(key))

\* An option that is not stored and already returns the desired value is
\* left alone.
AttemptUpdate_NoStampOnDefault(s, key, value, drifted, dry) ==
    IF key \in drifted
    THEN Echo(s, DRIFT_MSG(key))
    ELSE IF OptionsGet(s.store, key) = value
    THEN LET last_update_channel == OptionsGetLastUpdateChannel(s.store, key)
         IN  IF last_update_channel = NoChannel
             THEN s
             ELSE IF last_update_channel # AUTOMATOR
             THEN Echo(IF ~dry THEN CallSet(s, key, value, AUTOMATOR) ELSE s,
                       CHANNEL_UPDATE_MSG(key))
             ELSE s
    ELSE Echo(IF ~dry THEN CallSet(s, key, value, AUTOMATOR) ELSE s,
              UPDATE_MSG(key))

(***************************************************************************)
(* _attempt_update (lines 17-53)                                           *)
(***************************************************************************)
AttemptUpdate(s, key, value, drifted, dry) ==
    IF key \in drifted
    THEN Echo(s, DRIFT_MSG(key))
    ELSE IF OptionsGet(s.store, key) = value
    THEN LET last_update_channel == OptionsGetLastUpdateChannel(s.store, key)
         IN  IF last_update_channel = NoChannel
             THEN Echo(IF ~dry THEN CallSet(s, key, value, AUTOMATOR) ELSE s,
                       UPDATE_MSG(key))
             ELSE IF last_update_channel # AUTOMATOR
             THEN Echo(IF ~dry THEN CallSet(s, key, value, AUTOMATOR) ELSE s,
                       CHANNEL_UPDATE_MSG(key))
             ELSE s
    ELSE Echo(IF ~dry THEN CallSet(s, key, value, AUTOMATOR) ELSE s,
              UPDATE_MSG(key))

(***************************************************************************)
(* The input file.  A document is a YAML tree: `nodes` are the paths from  *)
(* the root that lead to a mapping, and `opts` is the mapping found under  *)
(* an "options" key: the option names and their desired values, in file    *)
(* order.                                                                  *)
(***************************************************************************)
MapKeys(options_map) == {options_map[i][1] : i \in 1..Len(options_map)}

MapIndex(options_map, key) ==
    CHOOSE i \in 1..Len(options_map) : options_map[i][1] = key

\* options_map[key]
MapValue(options_map, key) == options_map[MapIndex(options_map, key)][2]

\* The option mappings a file can hold: any of the registered options with
\* any values, in any order, each option at most once.
OptionMaps ==
    {m \in UNION {[1..n -> Keys \X Values] : n \in 0..Len(KeyOrder)} :
        \A i, j \in 1..Len(m) : i < j => m[i][1] # m[j][1]}

NodeSets ==
    { {<<"options">>},
      {<<"x">>, <<"x", "options">>},
      {<<"x">>} }

Documents == [nodes : NodeSets, opts : OptionMaps]

\* path.split("/") of the --path values "", "x" and "/x".
PathLists == {<<"">>, <<"x">>, <<"", "x">>}

\* The path walk, lines 126-133: descend one mapping per non-empty segment;
\* a segment that is missing (get returns None) stops the walk.
RECURSIVE WalkPath(_, _, _, _)
WalkPath(doc, path_list, i, current_path) ==
    IF i > Len(path_list)
    THEN [found |-> TRUE, key |-> "", current_path |-> current_path]
    ELSE LET key == path_list[i]
         IN  IF key = ""
             THEN WalkPath(doc, path_list, i + 1, current_path)
             ELSE IF Append(current_path, key) \notin doc.nodes
             THEN [found |-> FALSE, key |-> key, current_path |-> current_path]
             ELSE WalkPath(doc, path_list, i + 1, Append(current_path, key))

\* Lines 120-133: the walk with the implicit "options" segment appended.
ResolvePath(doc, path_list) ==
    WalkPath(doc, Append(path_list, "options"), 1, <<>>)

\* Faulty variants of sync's handling of a missing option: the unset is
\* announced but the delete is not issued;
SyncMissing_NeverDeletes(s, name, dry) ==
    IF OptionsIsSet(s.store, name)
    THEN IF OptionsGetLastUpdateChannel(s.store, name) = AUTOMATOR
         THEN Echo(s, UNSET_MSG(name))
         ELSE Echo(s, DRIFT_MSG(name))
    ELSE s

\* the last update channel is not looked at.
SyncMissing_AnyChannel(s, name, dry) ==
    IF OptionsIsSet(s.store, name)
    THEN Echo(IF ~dry THEN CallDelete(s, name) ELSE s, UNSET_MSG(name))
    ELSE s

\* the test of the last update channel is inverted.
SyncMissing_InvertedChannel(s, name, dry) ==
    IF OptionsIsSet(s.store, name)
    THEN IF OptionsGetLastUpdateChannel(s.store, name) # AUTOMATOR
         THEN Echo(IF ~dry THEN CallDelete(s, name) ELSE s, UNSET_MSG(name))
         ELSE Echo(s, DRIFT_MSG(name))
    ELSE s

\* the option is deleted before its channel is looked at.
SyncMissing_DeletesFirst(s, name, dry) ==
    IF OptionsIsSet(s.store, name)
    THEN LET t == IF ~dry THEN CallDelete(s, name) ELSE s
         IN  IF OptionsGetLastUpdateChannel(s.store, name) = AUTOMATOR
             THEN Echo(t, UNSET_MSG(name))
             ELSE Echo(t, DRIFT_MSG(name))
    ELSE s

(***************************************************************************)
(* sync's handling of a modifiable option that is not in the file          *)
(* (lines 194-200).                                                        *)
(***************************************************************************)
SyncMissing(s, name, dry) ==
    IF OptionsIsSet(s.store, name)
    THEN IF OptionsGetLastUpdateChannel(s.store, name) = AUTOMATOR
         THEN Echo(IF ~dry THEN CallDelete(s, name) ELSE s, UNSET_MSG(name))
         ELSE Echo(s, DRIFT_MSG(name))
    ELSE s

\* A faulty variant of sync's loop body: the `else` is lost, so the
\* missing-option branch also runs for the options of the file.
SyncOption_LostElse(s, name, options_map, drifted, dry) ==
    IF name \in MapKeys(options_map)
    THEN SyncMissing(
             AttemptUpdate(s, name, MapValue(options_map, name), drifted, dry),
             name, dry)
    ELSE SyncMissing(s, name, dry)

\* A faulty variant of sync's loop body: the drift set is not passed on.
SyncOption_NoDriftSet(s, name, options_map, drifted, dry) ==
    IF name \in MapKeys(options_map)
    THEN AttemptUpdate(s, name, MapValue(options_map, name), {}, dry)
    ELSE SyncMissing(s, name, dry)

\* One iteration of sync's loop over all_options (lines 188-200).
SyncOption(s, name, options_map, drifted, dry) ==
    IF name \in MapKeys(options_map)
    THEN AttemptUpdate(s, name, MapValue(options_map, name), drifted, dry)
    ELSE SyncMissing(s, name, dry)

\* Lines 161-163 and 181-183: the dry-run banner.
Banner(s, dry) == IF dry THEN Echo(s, DRY_RUN_MSG) ELSE s

(***************************************************************************)
(* The subcommands as functions of the store they start from: the banner   *)
(* and then the whole loop.                                                *)
(***************************************************************************)
Fresh(st) == [store |-> st, out |-> <<>>, writes |-> <<>>]

RECURSIVE PatchLoop(_, _, _, _, _)
PatchLoop(s, options_map, i, drifted, dry) ==
    IF i > Len(options_map)
    THEN s
    ELSE PatchLoop(
             AttemptUpdate(s, options_map[i][1], options_map[i][2], drifted, dry),
             options_map, i + 1, drifted, dry)

\* patch (lines 155-166)
Patch(st, options_map, drifted, dry) ==
    PatchLoop(Banner(Fresh(st), dry), options_map, 1, drifted, dry)

RECURSIVE SyncLoop(_, _, _, _, _)
SyncLoop(s, options_map, i, drifted, dry) ==
    IF i > Len(OptionsFilter)
    THEN s
    ELSE SyncLoop(SyncOption(s, OptionsFilter[i], options_map, drifted, dry),
                  options_map, i + 1, drifted, dry)

\* sync (lines 172-200)
Sync(st, options_map, drifted, dry) ==
    SyncLoop(Banner(Fresh(st), dry), options_map, 1, drifted, dry)

Subcommand(cmd, st, options_map, drifted, dry) ==
    IF cmd = "patch"
    THEN Patch(st, options_map, drifted, dry)
    ELSE Sync(st, options_map, drifted, dry)

\* A faulty variant of the validation: every denial is taken for drift.
Rejects_Never(not_writable_reason) == FALSE

\* Lines 141-147: what the validation loop does with can_update's answer.
Rejects(not_writable_reason) ==
    not_writable_reason # Writable /\ not_writable_reason # DRIFTED

\* A faulty variant of the validation: the drifted key is not recorded.
AddDrifted_Never(drifted, key, not_writable_reason) == drifted

AddDrifted(drifted, key, not_writable_reason) ==
    IF not_writable_reason = DRIFTED THEN drifted \cup {key} ELSE drifted

(***************************************************************************)
(* State.                                                                  *)
(***************************************************************************)
VARIABLES
    store,              \* the options store
    memo,               \* the answers can_update has given so far
    pc,                 \* where the invocation is
    run,                \* number of the current invocation
    subcommand,         \* "patch" or "sync"
    dry_run,            \* ctx.obj["dry_run"]
    options_to_update,  \* ctx.obj["options_to_update"]
    drifted_options,    \* drifted_options / ctx.obj["drifted_options"]
    idx,                \* position of the running loop
    out,                \* lines echoed by this invocation
    writes,             \* mutating store calls issued by this invocation
    exit_code,          \* <<status>> once the process has exited, <<>> before
    store0,             \* the store when this invocation started
    prev_writes         \* the store calls of the invocation before this one

vars ==
    <<store, memo, pc, run, subcommand, dry_run, options_to_update,
      drifted_options, idx, out, writes, exit_code, store0, prev_writes>>

\* The effects of the invocation so far.
Effects == [store |-> store, out |-> out, writes |-> writes]

Apply(s) ==
    /\ store' = s.store
    /\ out' = s.out
    /\ writes' = s.writes

(***************************************************************************)
(* options.can_update(key, value, UpdateChannel.AUTOMATOR).  The store's   *)
(* permission policy is not part of this program: its answer is any        *)
(* reason, with three restrictions.  The same question about the same      *)
(* stored entry gets the same answer; an option that is invalid (cannot be *)
(* modified by the Automator "in any circumstance", lines 90-92) is        *)
(* invalid at every query; and the Automator channel is denied exactly the *)
(* options that are not marked as automator-modifiable.                    *)
(***************************************************************************)
CanUpdate(key, value, reason) ==
    /\ reason \in Reasons
    /\ reason = CHANNEL_NOT_ALLOWED <=> key \notin ModifiableKeys
    /\ \A m \in memo :
          m.key = key =>
              /\ Rejects(m.reason) <=> Rejects(reason)
              /\ (m.value = value /\ m.entry = store[key]) => m.reason = reason
    /\ memo' = memo \cup
          {[key |-> key, value |-> value, entry |-> store[key], reason |-> reason]}

Init ==
    /\ store \in Stores
    /\ memo = {}
    /\ pc = "shell"
    /\ run = 1
    /\ subcommand = "patch"
    /\ dry_run = FALSE
    /\ options_to_update = <<>>
    /\ drifted_options = {}
    /\ idx = 1
    /\ out = <<>>
    /\ writes = <<>>
    /\ exit_code = <<>>
    /\ store0 = store
    /\ prev_writes = <<>>

\* The group callback up to the validation loop (lines 115-137).
Configoptions ==
    /\ pc = "shell"
    /\ \E dry \in BOOLEAN, cmd \in {"patch", "sync"},
          doc \in Documents, path_list \in PathLists :
          LET r == ResolvePath(doc, path_list)
          IN  /\ dry_run' = dry
              /\ subcommand' = cmd
              /\ IF r.found
                 THEN /\ options_to_update' = doc.opts
                      /\ pc' = "validate"
                      /\ UNCHANGED <<out, exit_code>>
                 ELSE /\ out' = Append(out, InvalidPathMsg(r.key, r.current_path))
                      /\ exit_code' = <<-1>>
                      /\ pc' = "exited"
                      /\ UNCHANGED options_to_update
    /\ drifted_options' = {}
    /\ idx' = 1
    /\ UNCHANGED <<store, memo, run, writes, store0, prev_writes>>

\* One iteration of the validation loop (lines 138-147).
Validate ==
    /\ pc = "validate"
    /\ idx <= Len(options_to_update)
    /\ LET key == options_to_update[idx][1]
           value == options_to_update[idx][2]
       IN  \E not_writable_reason \in Reasons :
              /\ CanUpdate(key, value, not_writable_reason)
              /\ IF Rejects(not_writable_reason)
                 THEN /\ out' = Append(out, InvalidOptionMsg(key, not_writable_reason))
                      /\ exit_code' = <<-1>>
                      /\ pc' = "exited"
                      /\ UNCHANGED <<drifted_options, idx>>
                 ELSE /\ drifted_options' =
                            AddDrifted(drifted_options, key, not_writable_reason)
                      /\ idx' = idx + 1
                      /\ UNCHANGED <<out, exit_code, pc>>
    /\ UNCHANGED <<store, run, subcommand, dry_run, options_to_update,
                   writes, store0, prev_writes>>

\* The validation loop is over (line 149); patch starts (lines 161-163).
EnterPatch ==
    /\ pc = "validate"
    /\ idx > Len(options_to_update)
    /\ subcommand = "patch"
    /\ Apply(Banner(Effects, dry_run))
    /\ pc' = "patch"
    /\ idx' = 1
    /\ UNCHANGED <<memo, run, subcommand, dry_run, options_to_update,
                   drifted_options, exit_code, store0, prev_writes>>

\* One iteration of patch's loop (lines 165-166).
PatchStep ==
    /\ pc = "patch"
    /\ idx <= Len(options_to_update)
    /\ Apply(AttemptUpdate(Effects, options_to_update[idx][1],
                           options_to_update[idx][2], drifted_options, dry_run))
    /\ idx' = idx + 1
    /\ UNCHANGED <<memo, pc, run, subcommand, dry_run, options_to_update,
                   drifted_options, exit_code, store0, prev_writes>>

\* The validation loop is over (line 149); sync starts (lines 181-187).
EnterSync ==
    /\ pc = "validate"
    /\ idx > Len(options_to_update)
    /\ subcommand = "sync"
    /\ Apply(Banner(Effects, dry_run))
    /\ pc' = "sync"
    /\ idx' = 1
    /\ UNCHANGED <<memo, run, subcommand, dry_run, options_to_update,
                   drifted_options, exit_code, store0, prev_writes>>

\* One iteration of sync's loop (lines 188-200).
SyncStep ==
    /\ pc = "sync"
    /\ idx <= Len(OptionsFilter)
    /\ Apply(SyncOption(Effects, OptionsFilter[idx], options_to_update,
                        drifted_options, dry_run))
    /\ idx' = idx + 1
    /\ UNCHANGED <<memo, pc, run, subcommand, dry_run, options_to_update,
                   drifted_options, exit_code, store0, prev_writes>>

\* The subcommand's loop is over: the process exits normally.
Finish ==
    /\ \/ pc = "patch" /\ idx > Len(options_to_update)
       \/ pc = "sync" /\ idx > Len(OptionsFilter)
    /\ pc' = "done"
    /\ exit_code' = <<0>>
    /\ UNCHANGED <<store, memo, run, subcommand, dry_run, options_to_update,
                   drifted_options, idx, out, writes, store0, prev_writes>>

\* The same command line is run again on the same file: lines 115-137 of the
\* new invocation yield the options_map and flags of the one before.
Rerun ==
    /\ pc = "done"
    /\ run < MaxRuns
    /\ run' = run + 1
    /\ pc' = "validate"
    /\ idx' = 1
    /\ drifted_options' = {}
    /\ out' = <<>>
    /\ writes' = <<>>
    /\ exit_code' = <<>>
    /\ store0' = store
    /\ prev_writes' = writes
    /\ UNCHANGED <<store, memo, subcommand, dry_run, options_to_update>>

Next ==
    \/ Configoptions
    \/ Validate
    \/ EnterPatch
    \/ PatchStep
    \/ EnterSync
    \/ SyncStep
    \/ Finish
    \/ Rerun

Spec == Init /\ [][Next]_vars

\* The file is edited (the desired value of one of its options is changed)
\* and the same command line is run again: lines 115-137 of the new
\* invocation yield the edited options_map and the flags of the one before.
Reapply ==
    /\ pc = "done"
    /\ run < MaxRuns
    /\ \E i \in 1..Len(options_to_update) :
          \E value \in Values \ {options_to_update[i][2]} :
             options_to_update' =
                 [options_to_update EXCEPT ![i] = <<@[1], value>>]
    /\ run' = run + 1
    /\ pc' = "validate"
    /\ idx' = 1
    /\ drifted_options' = {}
    /\ out' = <<>>
    /\ writes' = <<>>
    /\ exit_code' = <<>>
    /\ store0' = store
    /\ prev_writes' = writes
    /\ UNCHANGED <<store, memo, subcommand, dry_run>>

NextEdit ==
    \/ Configoptions
    \/ Validate
    \/ EnterPatch
    \/ PatchStep
    \/ EnterSync
    \/ SyncStep
    \/ Finish
    \/ Reapply

\* Invocations on a file that is edited between them.
SpecEdit == Init /\ [][NextEdit]_vars

(***************************************************************************)
(* Properties.                                                             *)
(***************************************************************************)
Last(seq) == seq[Len(seq)]

\* The next step of the invocation is the call _attempt_update(key, ...).
AttemptCall(key) ==
    \/ /\ pc = "patch"
       /\ idx <= Len(options_to_update)
       /\ options_to_update[idx][1] = key
    \/ /\ pc = "sync"
       /\ idx <= Len(OptionsFilter)
       /\ OptionsFilter[idx] = key
       /\ key \in MapKeys(options_to_update)

\* The subcommand has started, so _attempt_update may have been called.
InSubcommand == pc \in {"patch", "sync", "done"}

\* C1: a call of _attempt_update for a key of the drift set issues no set
\* and no delete, leaves the store as it is and echoes exactly the drift
\* message for that key, with or without dry-run and whatever the desired
\* and the stored value are.
C1_DriftedKeySkipped ==
    [][\A key \in Keys :
          (AttemptCall(key) /\ key \in drifted_options)
              => /\ writes' = writes
                 /\ store' = store
                 /\ out' = Append(out, DRIFT_MSG(key))]_vars

\* C1 witness: in a run without dry-run, _attempt_update has just skipped a
\* drifted input key whose desired value differs from the stored one.
C1_Witness ==
    /\ InSubcommand
    /\ ~dry_run
    /\ out # <<>>
    /\ \E key \in drifted_options :
          /\ key \in MapKeys(options_to_update)
          /\ Last(out) = DRIFT_MSG(key)
          /\ OptionsGet(store, key) # MapValue(options_to_update, key)
          /\ writes = <<>>

\* C2: fatal conditions are all-or-nothing.  An invocation that exits with
\* -1 has issued no set and no delete and the store is as it was at its
\* start; an unresolved path exits with -1; and no invocation whose
\* validation got a non-drift denial for an input key reaches its
\* subcommand: it exits with -1.
C2_FatalIsAllOrNothing ==
    /\ exit_code = <<-1>> => (pc = "exited" /\ store = store0 /\ writes = <<>>)
    /\ pc = "exited" => exit_code = <<-1>>
    /\ \A i \in 1..Len(options_to_update) :
          \A m \in memo :
             ( /\ pc # "shell"
               /\ m.key = options_to_update[i][1]
               /\ m.value = options_to_update[i][2]
               /\ m.entry = store0[m.key]
               /\ m.reason \notin {Writable, DRIFTED} )
                 => (pc = "exited" /\ exit_code = <<-1>>)

\* C2 witness: the second key of the file was rejected as read-only after a
\* first key that was valid, not drifted, and whose desired value differs
\* from the stored one; the invocation has exited.
C2_Witness ==
    /\ pc = "exited"
    /\ exit_code = <<-1>>
    /\ idx = 2
    /\ Len(options_to_update) >= 2
    /\ Last(out) = InvalidOptionMsg(options_to_update[2][1], READONLY)
    /\ options_to_update[1][1] \notin drifted_options
    /\ OptionsGet(store, options_to_update[1][1]) # options_to_update[1][2]

\* C3: a call of _attempt_update for a key that is not drifted and whose
\* desired value differs from what the store returns echoes the update
\* message; with dry-run off it issues exactly one set, of the desired value
\* with channel Automator, after which the store returns the desired value
\* and channel Automator for the key.
C3_DifferingValueUpdated ==
    [][\A key \in Keys :
          ( /\ AttemptCall(key)
            /\ key \notin drifted_options
            /\ OptionsGet(store, key) # MapValue(options_to_update, key) )
              => /\ out' = Append(out, UPDATE_MSG(key))
                 /\ dry_run => (writes' = writes /\ store' = store)
                 /\ ~dry_run =>
                      /\ writes' = Append(writes,
                            <<"set", key, MapValue(options_to_update, key),
                              AUTOMATOR>>)
                      /\ OptionsIsSet(store', key)
                      /\ OptionsGet(store', key) =
                            MapValue(options_to_update, key)
                      /\ OptionsGetLastUpdateChannel(store', key) = AUTOMATOR
                      /\ \A other \in Keys \ {key} :
                            store'[other] = store[other]]_vars

\* C3 witness: without dry-run, an input key that was set by another channel
\* to another value, and that the store did not report as drifted, has just
\* been updated.
C3_Witness ==
    /\ InSubcommand
    /\ ~dry_run
    /\ out # <<>>
    /\ writes # <<>>
    /\ \E key \in MapKeys(options_to_update) \ drifted_options :
          /\ Last(out) = UPDATE_MSG(key)
          /\ Last(writes) =
                <<"set", key, MapValue(options_to_update, key), AUTOMATOR>>
          /\ store0[key].isset
          /\ store0[key].channel = CLI
          /\ store0[key].value # MapValue(options_to_update, key)
          /\ store[key].value = MapValue(options_to_update, key)
          /\ store[key].channel = AUTOMATOR

\* C4: with the dry-run flag on, an invocation issues no set and no delete,
\* and every option's value, set status and channel are those the store had
\* when the invocation started.
C4_DryRunLeavesStore ==
    dry_run => (writes = <<>> /\ store = store0)

\* C4 witness: a dry-run sync has completed after announcing an update and
\* an unset.
C4_Witness ==
    /\ dry_run
    /\ pc = "done"
    /\ subcommand = "sync"
    /\ \E i, j \in 1..Len(out) :
          /\ out[i][1] = "UPDATE"
          /\ out[j][1] = "UNSET"

\* A completed invocation has the effects of its subcommand run as a whole
\* from the store it started with.
RunIsSubcommand ==
    pc = "done" =>
        Effects = Subcommand(subcommand, store0, options_to_update,
                             drifted_options, dry_run)

\* The lines the same invocation echoes with the dry-run flag the other way.
\* Validation happens before any write and does not read the flag, so the
\* other invocation has the same file, drift set and starting store.
OtherFlagOut ==
    Subcommand(subcommand, store0, options_to_update, drifted_options,
               ~dry_run).out

\* C5 as stated: a completed invocation echoes the same lines, in the same
\* order, as the same invocation with the dry-run flag the other way.
C5_SameOutput ==
    pc = "done" => out = OtherFlagOut

\* C5 amended: a completed dry run echoes the dry-run banner and then
\* exactly the lines of the real run, in the same order.
C5_SameOutputAfterBanner ==
    pc = "done" =>
        IF dry_run
        THEN out = <<DRY_RUN_MSG>> \o OtherFlagOut
        ELSE OtherFlagOut = <<DRY_RUN_MSG>> \o out

\* C5 witness: a dry run has completed with at least two lines after the
\* banner, and the real run would have written.
C5_Witness ==
    /\ pc = "done"
    /\ dry_run
    /\ Len(out) >= 3
    /\ Subcommand(subcommand, store0, options_to_update, drifted_options,
                  FALSE).writes # <<>>

\* A line about an option that this invocation found drifted.
DriftLines == {DRIFT_MSG(key) : key \in drifted_options}

\* C6: a call of _attempt_update for a key that is not drifted, whose stored
\* value equals the desired one and whose channel is Automator echoes
\* nothing and writes nothing; and a patch run again on the same file after
\* a patch without dry-run issues no set and no delete and echoes nothing
\* about an option that is not drifted.
C6_PatchIdempotent ==
    /\ [][\A key \in Keys :
            ( /\ AttemptCall(key)
              /\ key \notin drifted_options
              /\ OptionsGet(store, key) = MapValue(options_to_update, key)
              /\ OptionsGetLastUpdateChannel(store, key) = AUTOMATOR )
                => (out' = out /\ writes' = writes /\ store' = store)]_vars
    /\ []( (run >= 2 /\ subcommand = "patch" /\ ~dry_run)
              => /\ writes = <<>>
                 /\ store = store0
                 /\ \A i \in 1..Len(out) : out[i] \in DriftLines )

\* C6 witness: the second patch has completed after a first one that wrote,
\* with an option in the file that is not drifted.
C6_Witness ==
    /\ run = 2
    /\ pc = "done"
    /\ subcommand = "patch"
    /\ ~dry_run
    /\ prev_writes # <<>>
    /\ MapKeys(options_to_update) \ drifted_options # {}

\* The next step of sync handles a modifiable option that is not in the file.
SyncMissingCall(key) ==
    /\ pc = "sync"
    /\ idx <= Len(OptionsFilter)
    /\ OptionsFilter[idx] = key
    /\ key \notin MapKeys(options_to_update)

Lines == {out[i] : i \in 1..Len(out)}

\* The modifiable options missing from the file that were set, by the
\* Automator (TRUE) or by another channel (FALSE), when the run started.
MissingSet(by_automator) ==
    {key \in ModifiableKeys \ MapKeys(options_to_update) :
        /\ OptionsIsSet(store0, key)
        /\ (OptionsGetLastUpdateChannel(store0, key) = AUTOMATOR) = by_automator}

\* C7: when sync comes to a modifiable option that is not in the file, is
\* set and has channel Automator, it echoes the unset message and, unless
\* dry-run is on, deletes it (one delete call, nothing else changes); so a
\* completed sync without dry-run has unset every such option.
C7_SyncDeletesOwnMissing ==
    /\ [][\A key \in Keys :
            ( /\ SyncMissingCall(key)
              /\ OptionsIsSet(store, key)
              /\ OptionsGetLastUpdateChannel(store, key) = AUTOMATOR )
                => /\ out' = Append(out, UNSET_MSG(key))
                   /\ dry_run => (writes' = writes /\ store' = store)
                   /\ ~dry_run =>
                        /\ writes' = Append(writes, <<"delete", key>>)
                        /\ store' = [store EXCEPT ![key] = UnsetEntry]]_vars
    /\ []( (pc = "done" /\ subcommand = "sync")
              => \A key \in MissingSet(TRUE) :
                    /\ UNSET_MSG(key) \in Lines
                    /\ ~dry_run => ~OptionsIsSet(store, key) )

\* C7 witness: sync without dry-run has just deleted an Automator-owned
\* option that is not in the file.
C7_Witness ==
    /\ pc = "sync"
    /\ ~dry_run
    /\ out # <<>>
    /\ writes # <<>>
    /\ \E key \in MissingSet(TRUE) :
          /\ Last(out) = UNSET_MSG(key)
          /\ Last(writes) = <<"delete", key>>
          /\ ~OptionsIsSet(store, key)

C9_SyncIdempotent ==
    (run >= 2 /\ subcommand = "sync" /\ ~dry_run)
        => (writes = <<>> /\ store = store0)

\* C9 witness: the second sync has completed after a first one that both
\* wrote an option and deleted one.
C9_Witness ==
    /\ run = 2
    /\ pc = "done"
    /\ subcommand = "sync"
    /\ ~dry_run
    /\ \E i, j \in 1..Len(prev_writes) :
          /\ prev_writes[i][1] = "set"
          /\ prev_writes[j][1] = "delete"

\* C10: patch issues no delete, every option set when it started is still
\* set, and an option that is not in the file keeps its value, set status
\* and channel and has no line echoed about it.
C10_PatchOnlyTouchesInput ==
    (subcommand = "patch" /\ InSubcommand) =>
        /\ \A i \in 1..Len(writes) : writes[i][1] # "delete"
        /\ \A key \in Keys :
              /\ OptionsIsSet(store0, key) => OptionsIsSet(store, key)
              /\ key \notin MapKeys(options_to_update) =>
                    /\ store[key] = store0[key]
                    /\ \A i \in 1..Len(out) :
                          Len(out[i]) >= 2 => out[i][2] # key

\* C10 witness: a patch without dry-run has completed and written, while a
\* modifiable option owned by the Automator is not in the file, and an
\* option of the file that was set has its registered default as desired
\* value.
C10_Witness ==
    /\ pc = "done"
    /\ subcommand = "patch"
    /\ ~dry_run
    /\ writes # <<>>
    /\ MissingSet(TRUE) # {}
    /\ \E i \in 1..Len(options_to_update) :
          /\ OptionsIsSet(store0, options_to_update[i][1])
          /\ options_to_update[i][2] = DefaultValue(options_to_update[i][1])

\* C11: a call of _attempt_update for a key that is not drifted, whose
\* desired value equals what the store returns and whose last update channel
\* is None echoes the update message, not the channel-update message and not
\* nothing, and with dry-run off issues one set of that value with channel
\* Automator, after which the option is set with channel Automator.  An
\* option that is not set, asked to take its registered default, is such a
\* key.
C11_UnsetChannelStamped ==
    [][\A key \in Keys :
          ( /\ AttemptCall(key)
            /\ key \notin drifted_options
            /\ OptionsGet(store, key) = MapValue(options_to_update, key)
            /\ OptionsGetLastUpdateChannel(store, key) = NoChannel )
              => /\ out' = Append(out, UPDATE_MSG(key))
                 /\ dry_run => (writes' = writes /\ store' = store)
                 /\ ~dry_run =>
                      /\ writes' = Append(writes,
                            <<"set", key, MapValue(options_to_update, key),
                              AUTOMATOR>>)
                      /\ store' = [store EXCEPT ![key] =
                            [isset |-> TRUE,
                             value |-> MapValue(options_to_update, key),
                             channel |-> AUTOMATOR]]]_vars

\* C11 witness: without dry-run, an option that was not set and whose
\* desired value is its registered default has just been written with
\* channel Automator and announced as updated.
C11_Witness ==
    /\ InSubcommand
    /\ ~dry_run
    /\ out # <<>>
    /\ writes # <<>>
    /\ \E key \in MapKeys(options_to_update) \ drifted_options :
          /\ ~OptionsIsSet(store0, key)
          /\ MapValue(options_to_update, key) = DefaultValue(key)
          /\ Last(out) = UPDATE_MSG(key)
          /\ Last(writes) = <<"set", key, DefaultValue(key), AUTOMATOR>>
          /\ OptionsIsSet(store, key)
          /\ OptionsGetLastUpdateChannel(store, key) = AUTOMATOR

\* C12: a call of _attempt_update for a key that is not drifted, whose
\* desired value equals the stored one and whose last update channel is a
\* channel other than Automator echoes the channel-update message and, with
\* dry-run off, issues one set after which the channel is Automator and the
\* stored value is the one stored before; nothing else changes.
C12_ForeignChannelRestamped ==
    [][\A key \in Keys :
          ( /\ AttemptCall(key)
            /\ key \notin drifted_options
            /\ OptionsGet(store, key) = MapValue(options_to_update, key)
            /\ OptionsGetLastUpdateChannel(store, key)
                  \notin {NoChannel, AUTOMATOR} )
              => /\ out' = Append(out, CHANNEL_UPDATE_MSG(key))
                 /\ dry_run => (writes' = writes /\ store' = store)
                 /\ ~dry_run =>
                      /\ Len(writes') = Len(writes) + 1
                      /\ Last(writes')[1] = "set"
                      /\ Last(writes')[2] = key
                      /\ store' = [store EXCEPT ![key].channel = AUTOMATOR]]_vars

\* C12 witness: without dry-run, an option set by another channel to the
\* desired value has just had its channel changed to Automator, its value
\* being the one it had.
C12_Witness ==
    /\ InSubcommand
    /\ ~dry_run
    /\ out # <<>>
    /\ \E key \in MapKeys(options_to_update) \ drifted_options :
          /\ store0[key].isset
          /\ store0[key].channel = CLI
          /\ store0[key].value = MapValue(options_to_update, key)
          /\ Last(out) = CHANNEL_UPDATE_MSG(key)
          /\ store[key] = [store0[key] EXCEPT !.channel = AUTOMATOR]

\* The store has reported drift only for options whose last update channel
\* was not Automator.
DriftOnlyForeign ==
    \A m \in memo : m.reason = DRIFTED => m.entry.channel # AUTOMATOR

\* The invocation before this one was validated with `key` set by another
\* channel to the value the file gave for it, and it wrote that value again:
\* the option now has that value with channel Automator.
Healed(key) ==
    /\ \E i \in 1..Len(prev_writes) :
          prev_writes[i] = <<"set", key, store0[key].value, AUTOMATOR>>
    /\ \E m \in memo :
          /\ m.key = key
          /\ m.entry.isset
          /\ m.entry.channel \notin {NoChannel, AUTOMATOR}
          /\ m.entry.value = m.value
          /\ m.value = store0[key].value
          /\ m.reason = Writable

MissingKeys == ModifiableKeys \ MapKeys(options_to_update)

SyncCompleted == pc = "done" /\ subcommand = "sync" /\ ~dry_run

StartupDrift ==
    {key \in MapKeys(options_to_update) :
        \E m \in memo :
           /\ m.key = key
           /\ m.value = MapValue(options_to_update, key)
           /\ m.entry = store0[key]
           /\ m.reason = DRIFTED}

\* Number of entries of a log (lines or store calls) that are about `key`.
About(log, key) ==
    Cardinality({i \in 1..Len(log) : Len(log[i]) >= 2 /\ log[i][2] = key})

\* C15: can_update is only queried while the invocation has issued no set
\* and no delete and the store is as at its start; once the subcommand runs,
\* validation is not entered again and the drift set does not change: it is
\* the set of the startup answers, and it alone decides whether a key is
\* skipped, also after writes of the same run; and no key gets more than one
\* line or more than one store call in an invocation.
C15_DriftSetComputedOnce ==
    /\ [](pc = "validate" => (writes = <<>> /\ store = store0))
    /\ [][(pc \in {"patch", "sync"}) =>
             ( /\ pc' \in {"patch", "sync", "done"}
               /\ drifted_options' = drifted_options
               /\ memo' = memo )]_vars
    /\ [](InSubcommand => drifted_options = StartupDrift)
    /\ [][\A key \in Keys :
             AttemptCall(key) =>
                 ( key \in StartupDrift
                     <=> (out' = Append(out, DRIFT_MSG(key))
                          /\ writes' = writes) )]_vars
    /\ [](\A key \in Keys : About(out, key) <= 1 /\ About(writes, key) <= 1)

\* C15 witness: after a write of the same run has changed the store, a key
\* of the startup drift set has just been skipped.
C15_Witness ==
    /\ pc \in {"patch", "sync"}
    /\ writes # <<>>
    /\ store # store0
    /\ out # <<>>
    /\ \E key \in drifted_options : Last(out) = DRIFT_MSG(key)

\* The entries of a log (lines or store calls) that are about `key`.
AboutKey(log, key) ==
    SelectSeq(log, LAMBDA e : Len(e) >= 2 /\ e[2] = key)

\* What patch does from the store, file, drift set and flag of this
\* invocation.
AsPatch ==
    Patch(store0, options_to_update, drifted_options, dry_run)

\* C16: a completed sync has, for every key of the file, issued the store
\* calls and echoed the lines that patch issues and echoes for that key from
\* the same store, file, drift set and dry-run flag.
C16_SyncAppliesLikePatch ==
    (pc = "done" /\ subcommand = "sync") =>
        \A key \in MapKeys(options_to_update) :
           /\ AboutKey(writes, key) = AboutKey(AsPatch.writes, key)
           /\ AboutKey(out, key) = AboutKey(AsPatch.out, key)
           /\ store[key] = AsPatch.store[key]

\* C16 witness: a sync without dry-run has completed on a file that lists
\* its two options in the reverse of the registry order, one of them written
\* and the other skipped as drifted, so that sync echoed its lines in
\* another order than patch does.
C16_Witness ==
    /\ pc = "done"
    /\ subcommand = "sync"
    /\ ~dry_run
    /\ Len(options_to_update) = 2
    /\ writes # <<>>
    /\ drifted_options # {}
    /\ out # AsPatch.out

\* The option is set and its last update was made by another channel than
\* the Automator.
Foreign(st, key) ==
    /\ OptionsIsSet(st, key)
    /\ OptionsGetLastUpdateChannel(st, key) \notin {NoChannel, AUTOMATOR}

\* The store reported DRIFTED for every key of the file that another channel
\* had set to another value than the desired one.
DriftReported ==
    \A i \in 1..Len(options_to_update) :
       ( /\ Foreign(store0, options_to_update[i][1])
         /\ OptionsGet(store0, options_to_update[i][1]) # options_to_update[i][2] )
           => options_to_update[i][1] \in drifted_options

C19_Converged ==
    (pc = "done" /\ ~dry_run) =>
        /\ \A key \in MapKeys(options_to_update) \ drifted_options :
              (subcommand = "sync" => key \in ModifiableKeys) =>
                  store[key] = [isset |-> TRUE,
                                value |-> MapValue(options_to_update, key),
                                channel |-> AUTOMATOR]
        /\ \A i \in 1..Len(writes) :
              writes[i][1] = "set" => writes[i][4] = AUTOMATOR

\* C19 witness: a patch without dry-run has completed on a file with two
\* keys outside the drift set, one that was not set and has its default as
\* desired value and one that had another value.
C19_Witness ==
    /\ pc = "done"
    /\ ~dry_run
    /\ subcommand = "patch"
    /\ \E k1, k2 \in MapKeys(options_to_update) \ drifted_options :
          /\ ~OptionsIsSet(store0, k1)
          /\ MapValue(options_to_update, k1) = DefaultValue(k1)
          /\ OptionsIsSet(store0, k2)
          /\ OptionsGet(store0, k2) # MapValue(options_to_update, k2)
          /\ store[k1].channel = AUTOMATOR
          /\ store[k2].value = MapValue(options_to_update, k2)

====
